---- MODULE Spec2Model ----
(***************************************************************************)
(* Model of parse3.py: the route-metrics and classification functions, the *)
(* parse of one KML document (parse_kml_file) and the batch loop           *)
(* (generate_csv_from_kml_folder).                                         *)
(*                                                                         *)
(* Representation of values.                                               *)
(*  - A text (str) is a sequence of characters; a character is a one-      *)
(*    letter string, and a CJK character is written by its code point      *)
(*    ("u73AF" is U+73AF).  None is the value None.                        *)
(*  - Numbers are exact fixed-point integers:                              *)
(*      kilometres       in 1/1000 km     (KM  units per km)               *)
(*      metres of height in 1/60 m        (ELE units per metre)            *)
(*      hours            in 1/60000 h     (HR  units per hour)             *)
(*    so that /1000, the moving average over 1..5 samples, /4 and /250 are *)
(*    all exact.                                                           *)
(*  - A value of dynamic type carries its type: PyNone, Str(s), Num(n);    *)
(*    a raised exception is the value Exc(<class name>).                   *)
(*  - A track point is [longitude, latitude, elevation]; the points of the *)
(*    model lie on the equator, where the geodesic distance is the arc     *)
(*    between the longitudes; longitude is held as that arc in 1/1000 km.  *)
(***************************************************************************)
EXTENDS Integers, Sequences, FiniteSets, TLC

VARIABLES
  files,           \* os.listdir(kml_folder_path): the documents of the folder
  file_idx,        \* position of the for loop of generate_csv_from_kml_folder
  pc,              \* position within generate_csv_from_kml_folder / parse_kml_file
  route_metadata,  \* parse_kml_file: the metadata accumulator of the tree walk
  route_data,      \* parse_kml_file: the collected track points
  loc,             \* parse_kml_file: length, elevation_change, estimated_time, difficulty
  route_info,      \* value returned by parse_kml_file (None when it returns None)
  rows,            \* generate_csv_from_kml_folder: rows
  json_data,       \* generate_csv_from_kml_folder: json_data
  raised,          \* the exception that left generate_csv_from_kml_folder, or None
  folder_exists,   \* os.path.exists(kml_folder_path)
  fn_pc,           \* function harness: position
  fn_call,         \* function harness: the function called and its arguments
  fn_frame,        \* function harness: locals of calculate_total_ascent
  fn_ret           \* function harness: the value returned

vars == <<files, file_idx, pc, route_metadata, route_data, loc, route_info,
          rows, json_data, raised, folder_exists, fn_pc, fn_call, fn_frame, fn_ret>>

prog_vars == <<files, file_idx, pc, route_metadata, route_data, loc, route_info,
               rows, json_data, raised, folder_exists>>

fn_vars == <<fn_pc, fn_call, fn_frame, fn_ret>>

(* Python values of dynamic type *)
PyNone == [t |-> "None"]

Str(s) == [t |-> "str", s |-> s]

Num(n) == [t |-> "num", n |-> n]

\* a raised exception of the named class
Exc(class) == [t |-> "exc", class |-> class]

IsExc(v) == v.t = "exc"

\* the str that float() parses to the number n (the text of a number)
NumStr(n) == [t |-> "numstr", n |-> n]

\* bool(v) for None, a str and a number
Truthy(v) ==
  \/ v.t = "str" /\ v.s # <<>>
  \/ v.t = "numstr"
  \/ v.t = "num" /\ v.n # 0

KM == 10 * 100

ELE == 3 * 4 * 5

HR == 4 * 250 * ELE

Abs(x) == IF x < 0 THEN -x ELSE x

Max(a, b) == IF a >= b THEN a ELSE b

Min(a, b) == IF a <= b THEN a ELSE b

Range(s) == {s[i] : i \in 1..Len(s)}

RECURSIVE SumSeq(_)
SumSeq(s) == IF s = <<>> THEN 0 ELSE Head(s) + SumSeq(Tail(s))

RECURSIVE Concat(_)
Concat(ss) == IF ss = <<>> THEN <<>> ELSE Head(ss) \o Concat(Tail(ss))

----------------------------------------------------------------------------
(* str.lower(), the `in` operator on str, re.search(..., re.IGNORECASE)    *)

Lower(c) ==
  CASE c = "A" -> "a"
    [] c = "B" -> "b"
    [] c = "C" -> "c"
    [] c = "D" -> "d"
    [] c = "E" -> "e"
    [] c = "F" -> "f"
    [] c = "G" -> "g"
    [] c = "H" -> "h"
    [] c = "I" -> "i"
    [] c = "J" -> "j"
    [] c = "K" -> "k"
    [] c = "L" -> "l"
    [] c = "M" -> "m"
    [] c = "N" -> "n"
    [] c = "O" -> "o"
    [] c = "P" -> "p"
    [] c = "Q" -> "q"
    [] c = "R" -> "r"
    [] c = "S" -> "s"
    [] c = "T" -> "t"
    [] c = "U" -> "u"
    [] c = "V" -> "v"
    [] c = "W" -> "w"
    [] c = "X" -> "x"
    [] c = "Y" -> "y"
    [] c = "Z" -> "z"
    [] OTHER -> c

lower(s) == [i \in 1..Len(s) |-> Lower(s[i])]

\* keyword in text
Contains(text, keyword) ==
  \E i \in 0..(Len(text) - Len(keyword)) :
    \A j \in 1..Len(keyword) : text[i + j] = keyword[j]

\* mutant: re.IGNORECASE left out
re_search_case_sensitive(keyword, name) == Contains(name, keyword)

\* re.search(f".*{keyword}.*", name, re.IGNORECASE): the keywords hold no
\* regex metacharacter, so the search succeeds iff keyword occurs in name
\* with letter case ignored.
re_search_ignorecase(keyword, name) == Contains(lower(name), lower(keyword))

----------------------------------------------------------------------------
(* calculate_total_ascent                                                  *)

MIN_ELEVATION_DIFF == 10

SMOOTHING_WINDOW == 5

NOISE_THRESHOLD == 5

\* smoothed_elevations[i] (1-based), in ELE units: sum(window) / len(window)
smoothed_at(route_data_, i) ==
  LET n == Len(route_data_)
      start_idx == Max(0, (i - 1) - SMOOTHING_WINDOW \div 2)
      end_idx == Min(n, (i - 1) + SMOOTHING_WINDOW \div 2 + 1)
      window == [j \in 1..(end_idx - start_idx) |-> route_data_[start_idx + j].elevation]
  IN (SumSeq(window) * ELE) \div Len(window)

smoothed_elevations(route_data_) ==
  [i \in 1..Len(route_data_) |-> smoothed_at(route_data_, i)]

\* the locals before the second loop
ascent_init(smoothed) ==
  [total_ascent |-> 0, current_climb |-> 0, last_valid_elevation |-> smoothed[1]]

\* mutant: the noise filter applied to descents only
is_noise_descent_only(elevation_diff) ==
  elevation_diff <= 0 /\ Abs(elevation_diff) < NOISE_THRESHOLD * ELE

\* abs(elevation_diff) < NOISE_THRESHOLD
is_noise(elevation_diff) == Abs(elevation_diff) < NOISE_THRESHOLD * ELE

\* one iteration of the second loop, on the smoothed elevation s
ascent_step(st, s) ==
  LET elevation_diff == s - st.last_valid_elevation IN
  IF is_noise(elevation_diff) THEN st
  ELSE IF elevation_diff > 0
       THEN [st EXCEPT !.current_climb = @ + elevation_diff,
                       !.last_valid_elevation = s]
       ELSE [total_ascent |-> IF st.current_climb >= MIN_ELEVATION_DIFF * ELE
                              THEN st.total_ascent + st.current_climb
                              ELSE st.total_ascent,
             current_climb |-> 0,
             last_valid_elevation |-> s]

\* the trailing climb and the return value
ascent_result(st) ==
  IF st.current_climb >= MIN_ELEVATION_DIFF * ELE
  THEN st.total_ascent + st.current_climb
  ELSE st.total_ascent

RECURSIVE ascent_loop(_, _, _)
ascent_loop(smoothed, i, st) ==
  IF i > Len(smoothed) THEN st
  ELSE ascent_loop(smoothed, i + 1, ascent_step(st, smoothed[i]))

\* total ascent in ELE units
calculate_total_ascent(route_data_) ==
  IF Len(route_data_) < 2 THEN 0
  ELSE LET smoothed == smoothed_elevations(route_data_)
       IN ascent_result(ascent_loop(smoothed, 2, ascent_init(smoothed)))

----------------------------------------------------------------------------
(* determine_route_type                                                    *)

KW_loop == <<"l", "o", "o", "p">>
KW_huanxian == <<"u73AF", "u7EBF">>
KW_out_and_back == <<"o", "u", "t", " ", "a", "n", "d", " ", "b", "a", "c", "k">>
KW_zhefan == <<"u6298", "u8FD4">>
KW_outback == <<"o", "u", "t", "b", "a", "c", "k">>
KW_point_to_point == <<"p", "o", "i", "n", "t", " ", "t", "o", " ", "p", "o", "i", "n", "t">>
KW_chuanyue == <<"u7A7F", "u8D8A">>
KW_pointtopoint == <<"p", "o", "i", "n", "t", "t", "o", "p", "o", "i", "n", "t">>

\* mutant: the out-and-back keywords looked for before the loop keywords
determine_route_type_out_and_back_first(name) ==
  LET name_lower == lower(name) IN
  IF \/ Contains(name_lower, KW_out_and_back)
     \/ Contains(name_lower, KW_zhefan)
     \/ Contains(name_lower, KW_outback)
  THEN "outAndBack"
  ELSE IF Contains(name_lower, KW_loop) \/ Contains(name_lower, KW_huanxian)
  THEN "loop"
  ELSE IF \/ Contains(name_lower, KW_point_to_point)
          \/ Contains(name_lower, KW_chuanyue)
          \/ Contains(name_lower, KW_pointtopoint)
  THEN "pointToPoint"
  ELSE "other"

determine_route_type(name) ==
  LET name_lower == lower(name) IN
  IF Contains(name_lower, KW_loop) \/ Contains(name_lower, KW_huanxian)
  THEN "loop"
  ELSE IF \/ Contains(name_lower, KW_out_and_back)
          \/ Contains(name_lower, KW_zhefan)
          \/ Contains(name_lower, KW_outback)
  THEN "outAndBack"
  ELSE IF \/ Contains(name_lower, KW_point_to_point)
          \/ Contains(name_lower, KW_chuanyue)
          \/ Contains(name_lower, KW_pointtopoint)
  THEN "pointToPoint"
  ELSE "other"

----------------------------------------------------------------------------
(* geodesic, calculate_route_length, determine_route_type_by_coordinates   *)

\* geodesic(start, end).kilometers in KM units, for two points of the equator
geodesic_km(start, end) == Abs(start.longitude - end.longitude)

RECURSIVE length_loop(_, _, _)
length_loop(coordinates, i, length) ==
  IF i > Len(coordinates) THEN length
  ELSE length_loop(coordinates, i + 1,
                   length + geodesic_km(coordinates[i - 1], coordinates[i]))

\* mutant: the loop starts one element late
calculate_route_length_skips_first(coordinates) == length_loop(coordinates, 3, 0)

\* for i in range(1, len(coordinates)): coordinates[i-1], coordinates[i]
\* (0-based) are the 1-based elements i, i+1, so the loop starts at 2 here
calculate_route_length(coordinates) == length_loop(coordinates, 2, 0)

determine_route_type_by_coordinates(coordinates) ==
  IF Len(coordinates) < 2 THEN "other"
  ELSE
    LET start_point == coordinates[1]
        end_point == coordinates[Len(coordinates)]
        start_end_distance == geodesic_km(start_point, end_point)
        total_length == calculate_route_length(coordinates)
        mid_index == Len(coordinates) \div 2
        mid_point == coordinates[mid_index + 1]
        mid_to_start == geodesic_km(start_point, mid_point)
    IN \* start_end_distance < total_length * 0.1
       IF 10 * start_end_distance < total_length
       THEN \* abs(mid_to_start * 2 - total_length) < total_length * 0.3
            IF 10 * Abs(mid_to_start * 2 - total_length) < 3 * total_length
            THEN "outAndBack"
            ELSE "loop"
       ELSE "pointToPoint"

----------------------------------------------------------------------------
(* determine_features                                                      *)

feature_keywords ==
  << [keywords |-> << <<"u7011">>,
                     <<"u7011", "u5E03">>,
                     <<"w", "a", "t", "e", "r", "f", "a", "l", "l">> >>,
      feature |-> "waterfall"],
     [keywords |-> << <<"u6E56">>,
                     <<"l", "a", "k", "e">> >>,
      feature |-> "lake"],
     [keywords |-> << <<"u5CAD">>,
                     <<"u6881">>,
                     <<"u5CF0">>,
                     <<"u5C71">>,
                     <<"m", "o", "u", "n", "t", "a", "i", "n">> >>,
      feature |-> "mountain"],
     [keywords |-> << <<"u6797">>,
                     <<"u68EE", "u6797">>,
                     <<"f", "o", "r", "e", "s", "t">> >>,
      feature |-> "forest"],
     [keywords |-> << <<"u6C9F">>,
                     <<"u6EAA">>,
                     <<"u6CB3">>,
                     <<"r", "i", "v", "e", "r">> >>,
      feature |-> "river"],
     [keywords |-> << <<"u5CE1">>,
                     <<"u5CE1", "u8C37">>,
                     <<"c", "a", "n", "y", "o", "n">> >>,
      feature |-> "canyon"],
     [keywords |-> << <<"u6D1E">>,
                     <<"c", "a", "v", "e">> >>,
      feature |-> "cave"],
     [keywords |-> << <<"u6D77", "u6EE9">>,
                     <<"b", "e", "a", "c", "h">> >>,
      feature |-> "beach"],
     [keywords |-> << <<"u57CE", "u5E02", "u666F", "u89C2">>,
                     <<"c", "i", "t", "y", "v", "i", "e", "w">> >>,
      feature |-> "cityView"],
     [keywords |-> << <<"u91CE", "u751F", "u52A8", "u7269">>,
                     <<"w", "i", "l", "d", "l", "i", "f", "e">> >>,
      feature |-> "wildlife"],
     [keywords |-> << <<"u5386", "u53F2">>,
                     <<"h", "i", "s", "t", "o", "r", "i", "c", "a", "l">> >>,
      feature |-> "historical"],
     [keywords |-> << <<"u9732", "u8425">>,
                     <<"c", "a", "m", "p", "i", "n", "g">> >>,
      feature |-> "camping"],
     [keywords |-> << <<"u5BA0", "u7269", "u53CB", "u597D">>,
                     <<"p", "e", "t", "f", "r", "i", "e", "n", "d", "l", "y">> >>,
      feature |-> "petFriendly"],
     [keywords |-> << <<"u5BB6", "u5EAD", "u53CB", "u597D">>,
                     <<"f", "a", "m", "i", "l", "y", "f", "r", "i", "e", "n", "d", "l", "y">> >>,
      feature |-> "familyFriendly"],
     [keywords |-> << <<"u79D8">>,
                     <<"u9690", "u79D8">>,
                     <<"h", "i", "d", "d", "e", "n">> >>,
      feature |-> "hidden"],
     [keywords |-> << <<"u666F">>,
                     <<"u58EE", "u89C2", "u666F", "u8272">>,
                     <<"e", "p", "i", "c", "v", "i", "e", "w">> >>,
      feature |-> "epicView"] >>

RECURSIVE features_loop(_, _, _)
features_loop(name, k, features) ==
  IF k > Len(feature_keywords) THEN features
  ELSE LET entry == feature_keywords[k]
           hit == \E i \in 1..Len(entry.keywords) :
                     re_search_ignorecase(entry.keywords[i], name)
       IN features_loop(name, k + 1,
            IF hit /\ entry.feature \notin Range(features)
            THEN Append(features, entry.feature)
            ELSE features)

determine_features(name) == features_loop(name, 1, <<>>)

----------------------------------------------------------------------------
(* determine_difficulty                                                    *)
(*                                                                         *)
(* The products of the formula exceed 32 bits; they are computed exactly   *)
(* on numbers held as four limbs of base 10^4, least significant first.    *)

Base == 100 * 100

BigOf(n) == <<n % Base, (n \div Base) % Base, n \div (Base * Base), 0>>

\* the number a times k, for 0 <= k <= 210000
BigTimes(a, k) ==
  LET p1 == a[1] * k
      p2 == a[2] * k + p1 \div Base
      p3 == a[3] * k + p2 \div Base
      p4 == a[4] * k + p3 \div Base
  IN <<p1 % Base, p2 % Base, p3 % Base, p4>>

BigPlus(a, b) ==
  LET p1 == a[1] + b[1]
      p2 == a[2] + b[2] + p1 \div Base
      p3 == a[3] + b[3] + p2 \div Base
      p4 == a[4] + b[4] + p3 \div Base
  IN <<p1 % Base, p2 % Base, p3 % Base, p4>>

BigLess(a, b) ==
  \E i \in 1..4 : a[i] < b[i] /\ \A j \in (i + 1)..4 : a[j] = b[j]

r == 60

m == 5

M == 70

max_hr == 220 - 30

(* H = 1.75 = 7/4, so 201 / (H * H) = 201 * 16 / 49.  With d' = d * 1000   *)
(* metres and t' = t * 3600 seconds,                                       *)
(*   245 * 50000 * S / 13 = HB_T * t' + HB_D * d' + HB_H * h               *)
HB_T == 245 * 60 * r + 24696 * m + 201 * 80 * M - 992103

HB_D == 388962

HB_H == 5808852

(* reserve_percentage = (S - r*t'/60) / ((max_hr - r)*t'/60) * 100, so for *)
(* t' > 0:  reserve_percentage < P                                         *)
(*   iff  6000 * S < (P * (max_hr - r) + 100 * r) * t'                     *)
(*   iff  39 * (HB_T*t' + HB_D*d' + HB_H*h)                                *)
(*           < 6125 * (P * (max_hr - r) + 100 * r) * t'.                   *)
(* In the units of the model d' = d, t' = 3600 * t / HR = 18 * t / 300 and *)
(* h = h / ELE = 5 * h / 300; multiplied by 300 and divided by 126:        *)
(*   PCT_T * t + PCT_D * d + PCT_H * h < P * PCT_P * t                     *)
PCT_T == (39 * 18 * HB_T - 6125 * 18 * 100 * r) \div 126

PCT_D == 39 * 300 * (HB_D \div 126)

PCT_H == 39 * 5 * (HB_H \div 126)

PCT_P == (6125 * 18 * (max_hr - r)) \div 126

\* reserve_percentage < P, for t > 0
reserve_percentage_below(d, h, t, P) ==
  BigLess(BigPlus(BigTimes(BigOf(PCT_T), t),
                  BigPlus(BigTimes(BigOf(PCT_D), d), BigTimes(BigOf(PCT_H), h))),
          BigTimes(BigTimes(BigOf(PCT_P), t), P))

TXT_easy == <<"e", "a", "s", "y">>

TXT_moderate == <<"m", "o", "d", "e", "r", "a", "t", "e">>

TXT_hard == <<"h", "a", "r", "d">>

TXT_expert == <<"e", "x", "p", "e", "r", "t">>

\* mutant: the labels of the two middle tiers exchanged
determine_difficulty_tiers_swapped(d, h, t) ==
  IF t = 0 THEN Exc("ZeroDivisionError")
  ELSE IF reserve_percentage_below(d, h, t, 35) THEN Str(TXT_easy)
  ELSE IF reserve_percentage_below(d, h, t, 60) THEN Str(TXT_hard)
  ELSE IF reserve_percentage_below(d, h, t, 80) THEN Str(TXT_moderate)
  ELSE Str(TXT_expert)

\* d in KM units, h in ELE units, t in HR units (all >= 0); the division by
\* max_reserve = 0 raises ZeroDivisionError
determine_difficulty(d, h, t) ==
  IF t = 0 THEN Exc("ZeroDivisionError")
  ELSE IF reserve_percentage_below(d, h, t, 35) THEN Str(TXT_easy)
  ELSE IF reserve_percentage_below(d, h, t, 60) THEN Str(TXT_moderate)
  ELSE IF reserve_percentage_below(d, h, t, 80) THEN Str(TXT_hard)
  ELSE Str(TXT_expert)


----------------------------------------------------------------------------
(* parse_kml_file: the tree walk                                           *)
(*                                                                         *)
(* A feature of the parsed document is                                     *)
(*   [name, description, extended_data, features, geometry]                *)
(* name, description: NoAttr (the object has no such attribute), PyNone or *)
(* Str(text); extended_data: PyNone or [t |-> "ExtendedData", elements];   *)
(* an element is [name, value], its value the str NumStr(n) or Str(text);  *)
(* features: the child features; geometry: PyNone or                       *)
(* [t |-> <class name>, coords], a coordinate a tuple of 2 or 3 numbers.   *)

NoAttr == [t |-> "noattr"]

KW_ascent == <<"a", "s", "c", "e", "n", "t">>

KW_descent == <<"d", "e", "s", "c", "e", "n", "t">>

KW_time == <<"t", "i", "m", "e">>

KW_duration == <<"d", "u", "r", "a", "t", "i", "o", "n">>

KW_mileage == <<"m", "i", "l", "e", "a", "g", "e">>

KW_difficulty == <<"d", "i", "f", "f", "i", "c", "u", "l", "t", "y">>

\* route_metadata as parse_kml_file creates it; total_ascent and
\* total_descent in ELE units, estimated_time in HR units, distance in KM units
route_metadata_init ==
  [name |-> PyNone, description |-> PyNone,
   total_ascent |-> Num(0), total_descent |-> Num(0),
   estimated_time |-> PyNone, distance |-> PyNone, difficulty |-> PyNone]

\* if <matches>: route_metadata[field] = float(data.value) * num / den
\* st = [md, raised]; float() raises on a value that is no number's text
assign_float(st, matches, field, value, num, den) ==
  IF st.raised \/ ~matches THEN st
  ELSE IF value.t # "numstr" THEN [st EXCEPT !.raised = TRUE]
  ELSE [st EXCEPT !.md[field] = Num((value.n * num) \div den)]

\* the body of `for data in feature.extended_data.elements`
element_step(md, data) ==
  IF data.name.t # "str" THEN [md |-> md, raised |-> TRUE]
  ELSE
    LET name == lower(data.name.s)
        st0 == [md |-> md, raised |-> FALSE]
        st1 == assign_float(st0, Contains(name, KW_ascent),
                            "total_ascent", data.value, ELE, 1)
        st2 == assign_float(st1, Contains(name, KW_descent),
                            "total_descent", data.value, ELE, 1)
        st3 == assign_float(st2, Contains(name, KW_time) \/ Contains(name, KW_duration),
                            "estimated_time", data.value, HR, 1)
        st4 == assign_float(st3, Contains(name, KW_mileage),
                            "distance", data.value, KM, 1000)
    IN IF st4.raised \/ ~Contains(name, KW_difficulty) THEN st4
       ELSE [st4 EXCEPT !.md.difficulty = data.value]

\* the loop over the elements inside try/except: an exception ends the loop
\* and is swallowed
RECURSIVE elements_loop(_, _, _)
elements_loop(md, elements, i) ==
  IF i > Len(elements) THEN md
  ELSE LET st == element_step(md, elements[i])
       IN IF st.raised THEN st.md ELSE elements_loop(st.md, elements, i + 1)

\* name and description: set while route_metadata holds None
take_name(md, feature) ==
  IF feature.name # NoAttr /\ md.name = PyNone
  THEN [md EXCEPT !.name = feature.name]
  ELSE md

take_description(md, feature) ==
  IF feature.description # NoAttr /\ md.description = PyNone
  THEN [md EXCEPT !.description = feature.description]
  ELSE md

take_extended_data(md, feature) ==
  IF feature.extended_data # PyNone /\ feature.extended_data.elements # <<>>
  THEN elements_loop(md, feature.extended_data.elements, 1)
  ELSE md

track_point(coord) ==
  [longitude |-> coord[1], latitude |-> coord[2],
   elevation |-> IF Len(coord) > 2 THEN coord[3] ELSE 0]

take_geometry(data, feature) ==
  IF feature.geometry # PyNone /\ feature.geometry.t = "LineString"
  THEN data \o [i \in 1..Len(feature.geometry.coords) |->
                  track_point(feature.geometry.coords[i])]
  ELSE data

RECURSIVE process_features(_, _)
RECURSIVE process_children(_, _, _)
\* acc = [md |-> route_metadata, data |-> route_data]
process_features(acc, feature) ==
  LET md == take_extended_data(
              take_description(take_name(acc.md, feature), feature), feature)
      below == process_children([md |-> md, data |-> acc.data], feature.features, 1)
  IN [md |-> below.md, data |-> take_geometry(below.data, feature)]

process_children(acc, features, i) ==
  IF i > Len(features) THEN acc
  ELSE process_children(process_features(acc, features[i]), features, i + 1)

----------------------------------------------------------------------------
(* parse_kml_file: the assembly of the record                              *)

\* mutant: the metadata distance taken whenever it is not None
resolve_length_is_not_none(md, data) ==
  IF md.distance # PyNone THEN md.distance.n ELSE calculate_route_length(data)

resolve_length(md, data) ==
  IF Truthy(md.distance) THEN md.distance.n ELSE calculate_route_length(data)

resolve_elevation(md, data) ==
  IF Truthy(md.total_ascent) THEN md.total_ascent.n ELSE calculate_total_ascent(data)

\* length / 4 + elevation_change / 250, in HR units
estimate_time(length, elevation_change) ==
  length * (HR \div (4 * KM)) + elevation_change * (HR \div (250 * ELE))

resolve_difficulty(md, length, elevation_change, estimated_time) ==
  IF Truthy(md.difficulty) THEN md.difficulty
  ELSE determine_difficulty(length, elevation_change, estimated_time)

TXT_qingsong == <<"u8F7B", "u677E">>

TXT_jinjie == <<"u8FDB", "u9636">>

TXT_kunnan == <<"u56F0", "u96BE">>

TXT_chaonan == <<"u8D85", "u96BE">>

TXT_weizhi == <<"u672A", "u77E5">>

\* difficulty_cn.get(difficulty, '未知')
difficulty_cn(difficulty) ==
  IF difficulty = Str(TXT_easy) THEN TXT_qingsong
  ELSE IF difficulty = Str(TXT_moderate) THEN TXT_jinjie
  ELSE IF difficulty = Str(TXT_hard) THEN TXT_kunnan
  ELSE IF difficulty = Str(TXT_expert) THEN TXT_chaonan
  ELSE TXT_weizhi

MARK_longitude == <<"<", "d", "i", "v", ">", "u7ECF", "u5EA6">>

MARK_latitude == <<"<", "d", "i", "v", ">", "u7EAC", "u5EA6">>

\* the generated description: the f-string's arguments (its number formats
\* are not modelled)
generated_description(l) ==
  [t |-> "generated", length |-> l.length, difficulty |-> difficulty_cn(l.difficulty),
   elevation |-> l.elevation_change, estimated_time |-> l.estimated_time]

resolve_description(md, l) ==
  IF /\ Truthy(md.description)
     /\ md.description.t = "str"
     /\ \/ Contains(md.description.s, MARK_longitude)
        \/ Contains(md.description.s, MARK_latitude)
  THEN generated_description(l)
  ELSE IF Truthy(md.description) THEN md.description
  ELSE generated_description(l)

\* name = route_metadata["name"] if route_metadata["name"] else file_name
resolve_name(md, file_name) ==
  IF Truthy(md.name) THEN md.name.s ELSE file_name

resolve_type(name, data) ==
  LET route_type == determine_route_type(name)
  IN IF route_type = "other"
     THEN determine_route_type_by_coordinates(data)
     ELSE route_type

\* seconds in 1/SEC s: estimated_time * 3600
SEC == HR \div 1200

\* route_info (its two timestamps are left out)
make_route_info(md, data, l, file_name) ==
  LET name == resolve_name(md, file_name) IN
  [description |-> resolve_description(md, l),
   features |-> determine_features(name),
   coordinates |-> data,
   elevation |-> l.elevation_change,
   difficulty |-> l.difficulty,
   name |-> name,
   objectId |-> PyNone,
   type |-> resolve_type(name, data),
   reviewCount |-> 0,
   status |-> "open",
   thumbnailImage |-> "https://example.com/default.jpg",
   length |-> l.length,
   estimatedTime |-> l.estimated_time * ((3600 * SEC) \div HR),
   rating |-> 5]

\* {k: v for k, v in route_info.items() if k not in ['objectId', 'createdAt', 'updatedAt']}
json_route(info) ==
  [k \in DOMAIN info \ {"objectId"} |-> info[k]]

----------------------------------------------------------------------------
(* The documents of the model                                              *)

MaxElems == 2

MaxNameParts == 2

MaxFiles == 2

MaxPts == 4

MaxKm == 6

MaxHalfHours == 6

SeqsUpTo(S, n) == UNION {[1..k -> S] : k \in 0..n}

TXT_Trail == <<"T", "r", "a", "i", "l">>

TXT_route == <<"r", "o", "u", "t", "e">>

TXT_lakeloop == <<"l", "a", "k", "e", "l", "o", "o", "p">>

TXT_huanxian == <<"u73AF", "u7EBF">>

TXT_Nice == <<"N", "i", "c", "e">>

TXT_coord_dump == <<"<", "d", "i", "v", ">", "u7ECF", "u5EA6", "1">>

Element(name, value) == [name |-> name, value |-> value]

ExtendedData(elements) == [t |-> "ExtendedData", elements |-> elements]

LineString(coords) == [t |-> "LineString", coords |-> coords]

Feature(name, description, extended_data, features, geometry) ==
  [name |-> name, description |-> description, extended_data |-> extended_data,
   features |-> features, geometry |-> geometry]

KmlFile(stem, features) ==
  [stem |-> stem, ext |-> "kml", readable |-> TRUE, well_formed |-> TRUE,
   iterable |-> TRUE, features |-> features]

\* extended attributes: keys in several spellings, numeric and other values
ExtElems ==
  { Element(Str(<<"T", "o", "t", "a", "l", " ", "A", "s", "c", "e", "n", "t">>), NumStr(300)),
    Element(Str(<<"a", "s", "c", "e", "n", "t">>), NumStr(120)),
    Element(Str(<<"a", "s", "c", "e", "n", "t">>), NumStr(0)),
    Element(Str(<<"D", "e", "s", "c", "e", "n", "t">>), NumStr(50)),
    Element(Str(<<"D", "u", "r", "a", "t", "i", "o", "n">>), NumStr(3)),
    Element(Str(<<"m", "i", "l", "e", "a", "g", "e">>), NumStr(5000)),
    Element(Str(<<"M", "i", "l", "e", "a", "g", "e">>), NumStr(0)),
    Element(Str(<<"d", "i", "f", "f", "i", "c", "u", "l", "t", "y">>), Str(<<"h", "a", "r", "d">>)),
    Element(Str(<<"d", "i", "f", "f", "i", "c", "u", "l", "t", "y">>), Str(<<>>)),
    Element(Str(<<"a", "s", "c", "e", "n", "t">>), Str(<<"n", "/", "a">>)),
    Element(PyNone, NumStr(1)),
    Element(Str(<<"a", "s", "c", "e", "n", "t", " ", "t", "i", "m", "e">>), NumStr(1)) }

\* line geometries on the equator: <<longitude, latitude>> or
\* <<longitude, latitude, elevation>>
G_single == LineString(<< <<0, 0, 5>> >>)

G_two_same == LineString(<< <<0, 0>>, <<0, 0>> >>)

G_p2p == LineString(<< <<0, 0>>, <<1000, 0>> >>)

G_out_and_back == LineString(<< <<0, 0, 0>>, <<1000, 0, 0>>, <<0, 0, 0>> >>)

G_loop == LineString(<< <<0, 0>>, <<1000, 0>>, <<0, 0>>, <<1000, 0>>, <<0, 0>> >>)

G_tenth == LineString(<< <<0, 0>>, <<550, 0>>, <<100, 0>> >>)

G_climb == LineString(<< <<0, 0, 0>>, <<1000, 0, 0>>, <<2000, 0, 0>>, <<3000, 0, 40>> >>)

G_point == [t |-> "Point", coords |-> << <<0, 0>> >>]

AttrGeoms == {PyNone, G_p2p, G_climb}

ShapeGeoms == {PyNone, G_single, G_two_same, G_p2p, G_out_and_back, G_loop, G_tenth, G_point}

\* documents that vary the extended attributes: the first element on the
\* document feature when `split` is 1, the others on its placemark
AttrDocs ==
  { KmlFile(TXT_route,
      << Feature(Str(TXT_Trail), PyNone,
                 IF split = 0 THEN PyNone ELSE ExtendedData(SubSeq(els, 1, split)),
                 << Feature(PyNone, PyNone,
                            ExtendedData(SubSeq(els, split + 1, Len(els))), <<>>, g) >>,
                 PyNone) >>) :
      <<els, split, g>> \in
        {x \in SeqsUpTo(ExtElems, MaxElems) \X (0..1) \X AttrGeoms :
           x[2] <= Len(x[1])} }

NameVals == {NoAttr, PyNone, Str(<<>>), Str(TXT_Trail), Str(TXT_huanxian)}

DescVals == {NoAttr, PyNone, Str(<<>>), Str(TXT_Nice), Str(TXT_coord_dump)}

\* documents that vary the names and descriptions of three features met in
\* the order f1, its child, f2
NameDocs ==
  { KmlFile(stem,
      << Feature(nd[1][1], nd[1][2], PyNone,
                 << Feature(nd[2][1], nd[2][2], PyNone, <<>>, PyNone) >>, PyNone),
         Feature(nd[3][1], nd[3][2], PyNone, <<>>, G_p2p) >>) :
      <<stem, nd>> \in {TXT_route, TXT_lakeloop} \X
         ( {<<<<n1, PyNone>>, <<n2, PyNone>>, <<n3, PyNone>>>> :
              <<n1, n2, n3>> \in NameVals \X NameVals \X NameVals}
           \cup
           {<<<<PyNone, d1>>, <<PyNone, d2>>, <<PyNone, d3>>>> :
              <<d1, d2, d3>> \in DescVals \X DescVals \X DescVals} ) }

ShapeFragments ==
  { <<"L", "o">>, <<"o", "p">>, <<"u73AF", "u7EBF">>, <<"O", "u", "t">>, <<"b", "a", "c", "k">>, <<"o", "u", "t", " ", "a", "n", "d", " ", "b", "a", "c", "k">>,
    <<"u6298", "u8FD4">>, <<"u7A7F", "u8D8A">>, <<"p", "o", "i", "n", "t", " ", "t", "o", " ", "p", "o", "i", "n", "t">> }

ShapeNames == {Concat(parts) : parts \in SeqsUpTo(ShapeFragments, MaxNameParts)}

\* documents of one placemark that vary its name and its geometry
ShapeDocs ==
  { KmlFile(TXT_route, << Feature(Str(name), PyNone, PyNone, <<>>, g) >>) :
      <<name, g>> \in ShapeNames \X ShapeGeoms }

\* the files of a folder listing of several files
D_good == KmlFile(TXT_route, << Feature(Str(TXT_Trail), PyNone, PyNone, <<>>, G_p2p) >>)

D_loop == KmlFile(TXT_lakeloop, << Feature(PyNone, PyNone, PyNone, <<>>, G_out_and_back) >>)

D_no_points == KmlFile(TXT_route, << Feature(Str(TXT_Trail), PyNone, PyNone, <<>>, PyNone) >>)

D_unreadable == [D_good EXCEPT !.readable = FALSE]

D_malformed == [D_good EXCEPT !.well_formed = FALSE]

D_not_iterable == [D_good EXCEPT !.iterable = FALSE]

D_other_file == [D_good EXCEPT !.ext = "txt"]

BatchDocs ==
  {D_good, D_loop, D_no_points, D_unreadable, D_malformed, D_not_iterable, D_other_file}

Folders ==
  {<<d>> : d \in AttrDocs \cup NameDocs \cup ShapeDocs} \cup SeqsUpTo(BatchDocs, MaxFiles)

----------------------------------------------------------------------------
(* generate_csv_from_kml_folder and parse_kml_file as a state machine      *)

Init ==
  /\ folder_exists \in BOOLEAN
  /\ files \in IF folder_exists THEN Folders ELSE {<<>>}
  /\ file_idx = 1
  /\ pc = "start"
  /\ route_metadata = PyNone
  /\ route_data = <<>>
  /\ loc = PyNone
  /\ route_info = PyNone
  /\ rows = <<>>
  /\ json_data = <<>>
  /\ raised = PyNone
  /\ fn_pc = "off"
  /\ fn_call = PyNone
  /\ fn_frame = PyNone
  /\ fn_ret = PyNone

kml_file == files[file_idx]

\* os.path.basename(kml_file).split('.')[0]
file_name == kml_file.stem

\* if not os.path.exists(kml_folder_path): os.makedirs(...); return
CreateFolder ==
  /\ pc = "start" /\ ~folder_exists
  /\ folder_exists' = TRUE
  /\ pc' = "returned"
  /\ UNCHANGED <<files, file_idx, route_metadata, route_data, loc, route_info,
                 rows, json_data, raised, fn_vars>>

EnterLoop ==
  /\ pc = "start" /\ folder_exists
  /\ rows' = <<>> /\ json_data' = <<>>
  /\ pc' = "loop"
  /\ UNCHANGED <<files, file_idx, route_metadata, route_data, loc, route_info,
                 raised, folder_exists, fn_vars>>

\* a file whose name does not end with '.kml'
SkipFile ==
  /\ pc = "loop" /\ file_idx <= Len(files) /\ kml_file.ext # "kml"
  /\ file_idx' = file_idx + 1
  /\ UNCHANGED <<files, pc, route_metadata, route_data, loc, route_info,
                 rows, json_data, raised, folder_exists, fn_vars>>

CallParse ==
  /\ pc = "loop" /\ file_idx <= Len(files) /\ kml_file.ext = "kml"
  /\ pc' = "open"
  /\ UNCHANGED <<files, file_idx, route_metadata, route_data, loc, route_info,
                 rows, json_data, raised, folder_exists, fn_vars>>

\* with open(kml_file, 'rb') as f: doc = f.read()
OpenFile ==
  /\ pc = "open" /\ kml_file.readable
  /\ pc' = "from_string"
  /\ UNCHANGED <<files, file_idx, route_metadata, route_data, loc, route_info,
                 rows, json_data, raised, folder_exists, fn_vars>>

\* the exception of open() is caught neither in parse_kml_file nor in the loop
OpenRaises ==
  /\ pc = "open" /\ ~kml_file.readable
  /\ raised' = Exc("OSError")
  /\ pc' = "raised"
  /\ UNCHANGED <<files, file_idx, route_metadata, route_data, loc, route_info,
                 rows, json_data, folder_exists, fn_vars>>

\* k = k.from_string(doc); route_data = []; route_metadata = {...}
FromString ==
  /\ pc = "from_string" /\ kml_file.well_formed
  /\ route_data' = <<>>
  /\ route_metadata' = route_metadata_init
  /\ pc' = "walk"
  /\ UNCHANGED <<files, file_idx, loc, route_info, rows, json_data, raised,
                 folder_exists, fn_vars>>

\* the parser's exception is caught neither in parse_kml_file nor in the loop
FromStringRaises ==
  /\ pc = "from_string" /\ ~kml_file.well_formed
  /\ raised' = Exc("XMLSyntaxError")
  /\ pc' = "raised"
  /\ UNCHANGED <<files, file_idx, route_metadata, route_data, loc, route_info,
                 rows, json_data, folder_exists, fn_vars>>

\* for feature in k.features: process_features(feature)
WalkFeatures ==
  /\ pc = "walk" /\ kml_file.iterable
  /\ LET acc == process_children([md |-> route_metadata, data |-> route_data],
                                 kml_file.features, 1)
     IN /\ route_metadata' = acc.md
        /\ route_data' = acc.data
  /\ pc' = "resolve"
  /\ UNCHANGED <<files, file_idx, loc, route_info, rows, json_data, raised,
                 folder_exists, fn_vars>>

\* except Exception: return None  (k.features cannot be iterated)
WalkFails ==
  /\ pc = "walk" /\ ~kml_file.iterable
  /\ route_info' = PyNone
  /\ pc' = "append"
  /\ UNCHANGED <<files, file_idx, route_metadata, route_data, loc, rows, json_data,
                 raised, folder_exists, fn_vars>>

\* length, elevation_change, estimated_time
Resolve ==
  /\ pc = "resolve"
  /\ LET length == resolve_length(route_metadata, route_data)
         elevation_change == resolve_elevation(route_metadata, route_data)
     IN loc' = [length |-> length,
                elevation_change |-> elevation_change,
                estimated_time |-> estimate_time(length, elevation_change),
                difficulty |-> PyNone]
  /\ pc' = "difficulty"
  /\ UNCHANGED <<files, file_idx, route_metadata, route_data, route_info, rows,
                 json_data, raised, folder_exists, fn_vars>>

difficulty_value ==
  resolve_difficulty(route_metadata, loc.length, loc.elevation_change, loc.estimated_time)

Difficulty ==
  /\ pc = "difficulty" /\ ~IsExc(difficulty_value)
  /\ loc' = [loc EXCEPT !.difficulty = difficulty_value]
  /\ pc' = "assemble"
  /\ UNCHANGED <<files, file_idx, route_metadata, route_data, route_info, rows,
                 json_data, raised, folder_exists, fn_vars>>

\* the exception of determine_difficulty is caught neither in parse_kml_file
\* nor in the loop
DifficultyRaises ==
  /\ pc = "difficulty" /\ IsExc(difficulty_value)
  /\ raised' = difficulty_value
  /\ pc' = "raised"
  /\ UNCHANGED <<files, file_idx, route_metadata, route_data, loc, route_info,
                 rows, json_data, folder_exists, fn_vars>>

\* description, name, route_type, route_info; return route_info
Assemble ==
  /\ pc = "assemble"
  /\ route_info' = make_route_info(route_metadata, route_data, loc, file_name)
  /\ pc' = "append"
  /\ UNCHANGED <<files, file_idx, route_metadata, route_data, loc, rows, json_data,
                 raised, folder_exists, fn_vars>>

\* if route_info: rows.append(route_info); json_data.append(json_route)
AppendRow ==
  /\ pc = "append" /\ route_info # PyNone
  /\ rows' = Append(rows, route_info)
  /\ json_data' = Append(json_data, json_route(route_info))
  /\ file_idx' = file_idx + 1
  /\ route_metadata' = PyNone /\ route_data' = <<>> /\ loc' = PyNone
  /\ route_info' = PyNone
  /\ pc' = "loop"
  /\ UNCHANGED <<files, raised, folder_exists, fn_vars>>

\* parse_kml_file returned None: no row
DropRow ==
  /\ pc = "append" /\ route_info = PyNone
  /\ file_idx' = file_idx + 1
  /\ route_metadata' = PyNone /\ route_data' = <<>> /\ loc' = PyNone
  /\ pc' = "loop"
  /\ UNCHANGED <<files, route_info, rows, json_data, raised, folder_exists, fn_vars>>

\* the loop is over; the CSV and JSON files are written when rows is not empty
Finish ==
  /\ pc = "loop" /\ file_idx > Len(files)
  /\ pc' = "returned"
  /\ UNCHANGED <<files, file_idx, route_metadata, route_data, loc, route_info,
                 rows, json_data, raised, folder_exists, fn_vars>>

Next ==
  \/ CreateFolder \/ EnterLoop \/ SkipFile \/ CallParse
  \/ OpenFile \/ OpenRaises \/ FromString \/ FromStringRaises
  \/ WalkFeatures \/ WalkFails \/ Resolve \/ Difficulty \/ DifficultyRaises
  \/ Assemble \/ AppendRow \/ DropRow \/ Finish

Spec == Init /\ [][Next]_vars

----------------------------------------------------------------------------
(* The functions called on their own: one call per behaviour, its          *)
(* arguments drawn from bounded sets                                       *)

EquatorPoints ==
  {[longitude |-> x * KM, latitude |-> 0, elevation |-> 0] : x \in 0..2}

ElevValues == {0, 36, 40}

ElevPoints ==
  {[longitude |-> 0, latitude |-> 0, elevation |-> e] : e \in ElevValues}

FeatureFragments ==
  { <<"u6E56">>, <<"L", "a", "k", "e">>, <<"W", "a", "t", "e", "r">>, <<"f", "a", "l", "l">>, <<"u7011">>, <<"u68EE", "u6797">>, <<"R", "i", "v", "e", "r">>,
    <<"u79D8">>, <<"u666F">>, <<"x", " ">> }

FeatureNames == {Concat(parts) : parts \in SeqsUpTo(FeatureFragments, MaxNameParts)}

Calls ==
  {[fn |-> "calculate_route_length", coordinates |-> c] :
     c \in SeqsUpTo(EquatorPoints, MaxPts)}
  \cup
  {[fn |-> "calculate_total_ascent", route_data |-> c] :
     c \in SeqsUpTo(ElevPoints, MaxPts)}
  \cup
  {[fn |-> "determine_difficulty", d |-> d * KM, h |-> h * 100 * ELE,
    t |-> t * (HR \div 2)] :
     <<d, h, t>> \in (0..MaxKm) \X (0..5) \X (0..MaxHalfHours)}
  \cup
  {[fn |-> "determine_features", name |-> n] : n \in FeatureNames}

InitFn ==
  /\ folder_exists = TRUE
  /\ files = <<>>
  /\ file_idx = 1
  /\ pc = "off"
  /\ route_metadata = PyNone
  /\ route_data = <<>>
  /\ loc = PyNone
  /\ route_info = PyNone
  /\ rows = <<>>
  /\ json_data = <<>>
  /\ raised = PyNone
  /\ fn_pc = "call"
  /\ fn_call \in Calls
  /\ fn_frame = PyNone
  /\ fn_ret = PyNone

Call_calculate_route_length ==
  /\ fn_pc = "call" /\ fn_call.fn = "calculate_route_length"
  /\ fn_ret' = calculate_route_length(fn_call.coordinates)
  /\ fn_pc' = "returned"
  /\ UNCHANGED <<prog_vars, fn_call, fn_frame>>

Call_determine_difficulty ==
  /\ fn_pc = "call" /\ fn_call.fn = "determine_difficulty"
  /\ fn_ret' = determine_difficulty(fn_call.d, fn_call.h, fn_call.t)
  /\ fn_pc' = "returned"
  /\ UNCHANGED <<prog_vars, fn_call, fn_frame>>

Call_determine_features ==
  /\ fn_pc = "call" /\ fn_call.fn = "determine_features"
  /\ fn_ret' = determine_features(fn_call.name)
  /\ fn_pc' = "returned"
  /\ UNCHANGED <<prog_vars, fn_call, fn_frame>>

\* calculate_total_ascent, one iteration of its second loop at a time
\* if len(route_data) < 2: return 0
Ascent_ReturnEarly ==
  /\ fn_pc = "call" /\ fn_call.fn = "calculate_total_ascent"
  /\ Len(fn_call.route_data) < 2
  /\ fn_ret' = 0
  /\ fn_pc' = "returned"
  /\ UNCHANGED <<prog_vars, fn_call, fn_frame>>

\* the smoothing loop and the locals of the second loop
Ascent_Smooth ==
  /\ fn_pc = "call" /\ fn_call.fn = "calculate_total_ascent"
  /\ Len(fn_call.route_data) >= 2
  /\ LET smoothed == smoothed_elevations(fn_call.route_data)
     IN fn_frame' = [smoothed_elevations |-> smoothed, i |-> 2,
                     st |-> ascent_init(smoothed)]
  /\ fn_pc' = "ascent_loop"
  /\ UNCHANGED <<prog_vars, fn_call, fn_ret>>

Ascent_Step ==
  /\ fn_pc = "ascent_loop" /\ fn_frame.i <= Len(fn_frame.smoothed_elevations)
  /\ fn_frame' = [fn_frame EXCEPT
                    !.st = ascent_step(@, fn_frame.smoothed_elevations[fn_frame.i]),
                    !.i = @ + 1]
  /\ UNCHANGED <<prog_vars, fn_pc, fn_call, fn_ret>>

Ascent_Return ==
  /\ fn_pc = "ascent_loop" /\ fn_frame.i > Len(fn_frame.smoothed_elevations)
  /\ fn_ret' = ascent_result(fn_frame.st)
  /\ fn_pc' = "returned"
  /\ UNCHANGED <<prog_vars, fn_call, fn_frame>>

NextFn ==
  \/ Call_calculate_route_length \/ Call_determine_difficulty
  \/ Call_determine_features
  \/ Ascent_ReturnEarly \/ Ascent_Smooth \/ Ascent_Step \/ Ascent_Return

SpecFn == InitFn /\ [][NextFn]_vars

----------------------------------------------------------------------------
(* Properties of the functions                                             *)

FnReturned(fn) == fn_pc = "returned" /\ fn_call.fn = fn

Coincide(p, q) == p.longitude = q.longitude /\ p.latitude = q.latitude

\* C8 as stated: for all coordinate sequences calculate_route_length(seq) >= 0,
\* and it is 0 if and only if the sequence has fewer than 2 points.
C8_ZeroIffShort ==
  FnReturned("calculate_route_length") =>
    /\ fn_ret >= 0
    /\ fn_ret = 0 <=> Len(fn_call.coordinates) < 2

\* C8 amended: calculate_route_length(seq) >= 0, and it is 0 if and only if
\* every two consecutive points of the sequence coincide, which is so for
\* every sequence of fewer than 2 points.
C8_ZeroIffNoMove ==
  FnReturned("calculate_route_length") =>
    LET c == fn_call.coordinates IN
    /\ fn_ret >= 0
    /\ fn_ret = 0 <=> \A i \in 1..(Len(c) - 1) : Coincide(c[i], c[i + 1])
    /\ Len(c) < 2 => fn_ret = 0

\* a sequence of two or more points, all at the same place, has length 0
C8_Witness ==
  /\ FnReturned("calculate_route_length")
  /\ Len(fn_call.coordinates) >= 2
  /\ fn_ret = 0

Perturb(route_data_, k, delta) ==
  [route_data_ EXCEPT ![k].elevation = @ + delta]

\* C5 as stated: changing the elevation of any single sample by less than 5
\* leaves the total ascent returned by calculate_total_ascent unchanged.
C5_PerturbationInsensitive ==
  FnReturned("calculate_total_ascent") =>
    \A k \in 1..Len(fn_call.route_data) : \A delta \in (-4)..4 :
      calculate_total_ascent(Perturb(fn_call.route_data, k, delta)) = fn_ret

\* C5 amended: calculate_total_ascent is insensitive to changes of the
\* smoothed elevation smaller than 5 m: an iteration whose smoothed elevation
\* differs from last_valid_elevation by less than 5 changes none of
\* total_ascent, current_climb and last_valid_elevation.
C5_NoiseStepSkipped ==
  [][ ( /\ fn_pc = "ascent_loop"
        /\ fn_frame.i <= Len(fn_frame.smoothed_elevations)
        /\ Abs(fn_frame.smoothed_elevations[fn_frame.i]
               - fn_frame.st.last_valid_elevation) < 5 * ELE )
      => fn_frame'.st = fn_frame.st ]_vars

\* an iteration was skipped on a smoothed elevation that differs from
\* last_valid_elevation: a processed iteration would have stored it there
C5_Witness ==
  /\ fn_pc = "ascent_loop"
  /\ fn_frame.i > 2
  /\ fn_frame.smoothed_elevations[fn_frame.i - 1] # fn_frame.st.last_valid_elevation
  /\ Abs(fn_frame.smoothed_elevations[fn_frame.i - 1]
         - fn_frame.st.last_valid_elevation) < 5 * ELE
  /\ fn_frame.st.current_climb > 0

TierRank(difficulty) ==
  IF difficulty = Str(TXT_easy) THEN 1
  ELSE IF difficulty = Str(TXT_moderate) THEN 2
  ELSE IF difficulty = Str(TXT_hard) THEN 3
  ELSE IF difficulty = Str(TXT_expert) THEN 4
  ELSE 0

CallsOfDifficulty == {c \in Calls : c.fn = "determine_difficulty"}

\* C7: for fixed t > 0, determine_difficulty never returns a lower tier
\* (easy < moderate < hard < expert) for a larger d with h fixed, nor for a
\* larger h with d fixed.
C7_DifficultyMonotone ==
  (FnReturned("determine_difficulty") /\ fn_call.t > 0) =>
    /\ TierRank(fn_ret) \in 1..4
    /\ \A c \in CallsOfDifficulty :
         ( /\ c.t = fn_call.t
           /\ \/ c.d >= fn_call.d /\ c.h = fn_call.h
              \/ c.d = fn_call.d /\ c.h >= fn_call.h )
         => TierRank(determine_difficulty(c.d, c.h, c.t)) >= TierRank(fn_ret)

\* a call that returns hard, while a larger distance gives expert and a
\* smaller gain gives a lower tier
C7_Witness ==
  /\ FnReturned("determine_difficulty") /\ fn_call.t > 0
  /\ fn_ret = Str(TXT_hard)
  /\ \E c \in CallsOfDifficulty :
       /\ c.t = fn_call.t /\ c.h = fn_call.h /\ c.d > fn_call.d
       /\ determine_difficulty(c.d, c.h, c.t) = Str(TXT_expert)
  /\ \E c \in CallsOfDifficulty :
       /\ c.t = fn_call.t /\ c.d = fn_call.d /\ c.h < fn_call.h
       /\ TierRank(determine_difficulty(c.d, c.h, c.t)) < 3

\* keyword occurs in name, letter case ignored (the keywords are lower case)
OccursIgnoringCase(keyword, name) ==
  \E i \in 1..Len(name) :
    /\ i + Len(keyword) - 1 <= Len(name)
    /\ \A j \in 1..Len(keyword) : Lower(name[i + j - 1]) = keyword[j]

GroupMatches(k, name) ==
  \E i \in 1..Len(feature_keywords[k].keywords) :
    OccursIgnoringCase(feature_keywords[k].keywords[i], name)

TableIndex(tag) ==
  CHOOSE k \in 1..Len(feature_keywords) : feature_keywords[k].feature = tag

\* C10: determine_features returns exactly the tags whose keyword group has
\* a keyword occurring in the name (letter case ignored), each once, in the
\* order of the table; the list is empty when no group matches.
C10_FeaturesExactOrdered ==
  FnReturned("determine_features") =>
    /\ \A k \in 1..Len(feature_keywords) :
         (\E i \in 1..Len(fn_ret) : fn_ret[i] = feature_keywords[k].feature)
           <=> GroupMatches(k, fn_call.name)
    /\ \A i \in 1..Len(fn_ret) : \E k \in 1..Len(feature_keywords) :
         fn_ret[i] = feature_keywords[k].feature
    /\ \A i, j \in 1..Len(fn_ret) :
         i < j => TableIndex(fn_ret[i]) < TableIndex(fn_ret[j])
    /\ (\A k \in 1..Len(feature_keywords) : ~GroupMatches(k, fn_call.name))
         => fn_ret = <<>>

\* a name with "Lake" before the waterfall character: both tags, in table order
C10_Witness ==
  /\ FnReturned("determine_features")
  /\ fn_ret = <<"waterfall", "lake">>
  /\ fn_call.name = <<"L", "a", "k", "e", "u7011">>

----------------------------------------------------------------------------
(* Properties of parse_kml_file and of the batch                           *)

RECURSIVE AttrsOfFeatures(_)
\* the extended attributes of a feature list in the order of the tree walk:
\* a feature's own elements, then those of its children
AttrsOfFeature(f) ==
  (IF f.extended_data = PyNone THEN <<>> ELSE f.extended_data.elements)
    \o AttrsOfFeatures(f.features)

AttrsOfFeatures(fs) ==
  IF fs = <<>> THEN <<>> ELSE AttrsOfFeature(Head(fs)) \o AttrsOfFeatures(Tail(fs))

RECURSIVE FeaturesInOrder(_)
\* the features in depth-first order
FeaturesInOrder(fs) ==
  IF fs = <<>> THEN <<>>
  ELSE <<Head(fs)>> \o FeaturesInOrder(Head(fs).features) \o FeaturesInOrder(Tail(fs))

ExtFields == {"total_ascent", "total_descent", "estimated_time", "distance", "difficulty"}

KeyMatches(field, key) ==
  CASE field = "total_ascent" -> Contains(lower(key), KW_ascent)
    [] field = "total_descent" -> Contains(lower(key), KW_descent)
    [] field = "estimated_time" ->
         Contains(lower(key), KW_time) \/ Contains(lower(key), KW_duration)
    [] field = "distance" -> Contains(lower(key), KW_mileage)
    [] field = "difficulty" -> Contains(lower(key), KW_difficulty)

\* the value a field takes from an attribute's value
FieldValue(field, value) ==
  CASE field = "total_ascent" -> Num(value.n * ELE)
    [] field = "total_descent" -> Num(value.n * ELE)
    [] field = "estimated_time" -> Num(value.n * HR)
    [] field = "distance" -> Num((value.n * KM) \div 1000)
    [] field = "difficulty" -> value

\* an attribute with a key, and with a number for every numeric field it names
WellFormed(e) ==
  /\ e.name.t = "str"
  /\ (\E field \in ExtFields \ {"difficulty"} : KeyMatches(field, e.name.s))
       => e.value.t = "numstr"

DocAttrs == AttrsOfFeatures(kml_file.features)

CleanDoc == \A i \in 1..Len(DocAttrs) : WellFormed(DocAttrs[i])

Matching(field) == {i \in 1..Len(DocAttrs) : KeyMatches(field, DocAttrs[i].name.s)}

SetMin(S) == CHOOSE x \in S : \A y \in S : x <= y

\* C1: at the end of the tree walk every extended-attribute field holds the
\* value of the first matching attribute in traversal order (its initial value
\* when no attribute matches); later matching attributes do not change it.
C1_FirstMatchWins ==
  (pc = "resolve" /\ CleanDoc) =>
    \A field \in ExtFields :
      route_metadata[field] =
        IF Matching(field) = {} THEN route_metadata_init[field]
        ELSE FieldValue(field, DocAttrs[SetMin(Matching(field))].value)

\* C2: a route whose resolved length and elevation are both 0 and whose
\* metadata gives no difficulty still gets its record: parse_kml_file does not
\* raise on it.
C2_DegenerateRouteReturned ==
  ( /\ loc # PyNone
    /\ loc.length = 0 /\ loc.elevation_change = 0
    /\ ~Truthy(route_metadata.difficulty) )
  => pc # "raised"

Unparsable(doc) == ~doc.readable \/ ~doc.well_formed \/ ~doc.iterable

\* C3: a document that cannot be read or parsed gives no record and does not
\* abort the batch: no exception leaves the loop on such a document, and a
\* finished batch holds one row for each document that can be parsed.
C3_FailuresIsolated ==
  /\ (pc = "raised" => ~Unparsable(kml_file))
  /\ (pc = "returned" /\ files # <<>>) =>
       Len(rows) = Cardinality({i \in 1..Len(files) :
                                  files[i].ext = "kml" /\ ~Unparsable(files[i])})

Returned == pc = "append" /\ route_info # PyNone

\* the sum of the distances between consecutive points
PathLength(points) ==
  SumSeq([i \in 1..(Len(points) - 1) |->
            Abs(points[i + 1].longitude - points[i].longitude)])

\* estimatedTime (1/SEC s) = 3600 * (length / 4 + elevation / 250), with
\* length in 1/1000 km and elevation in 1/60 m: both sides divided by 1000
TimeFromLengthElevation(info) ==
  info.estimatedTime * 60 = 180 * (info.length * 15 + info.elevation * 4)

\* C4 as stated: length is the metadata distance when the metadata supplied
\* one, else the computed length; elevation is the metadata total_ascent when
\* supplied, else the computed ascent; estimatedTime is 3600 * (length / 4 +
\* elevation / 250) of these.
C4_MetadataWhenSupplied ==
  (Returned /\ CleanDoc) =>
    /\ route_info.length =
         IF Matching("distance") # {} THEN route_metadata.distance.n
         ELSE PathLength(route_data)
    /\ route_info.elevation =
         IF Matching("total_ascent") # {} THEN route_metadata.total_ascent.n
         ELSE calculate_total_ascent(route_data)
    /\ TimeFromLengthElevation(route_info)

\* C4 amended: length is the distance held by the metadata (a raw mileage /
\* 1000) when that is not zero, else the computed length; elevation is the
\* total_ascent held by the metadata when that is not zero, else the computed
\* ascent; estimatedTime is 3600 * (length / 4 + elevation / 250) of these,
\* whatever estimated_time the metadata holds.
C4_MetadataWhenNonZero ==
  Returned =>
    /\ route_info.length =
         IF route_metadata.distance # PyNone /\ route_metadata.distance.n # 0
         THEN route_metadata.distance.n
         ELSE PathLength(route_data)
    /\ route_metadata.distance # PyNone =>
         \E i \in 1..Len(DocAttrs) :
           /\ DocAttrs[i].name.t = "str" /\ KeyMatches("distance", DocAttrs[i].name.s)
           /\ DocAttrs[i].value.t = "numstr"
           /\ route_metadata.distance.n * 1000 = DocAttrs[i].value.n * KM
    /\ route_info.elevation =
         IF route_metadata.total_ascent.n # 0
         THEN route_metadata.total_ascent.n
         ELSE calculate_total_ascent(route_data)
    /\ TimeFromLengthElevation(route_info)

\* a mileage of 0 was supplied and the length is the computed one; the
\* metadata also holds an estimated_time, which the record does not take
C4_Witness ==
  /\ Returned
  /\ route_metadata.distance = Num(0)
  /\ route_info.length = 1000
  /\ route_metadata.estimated_time = Num(3 * HR)
  /\ route_info.estimatedTime # 3 * 3600 * SEC

NonEmpty(v) == v.t = "str" /\ v.s # <<>>

DocFeatures == FeaturesInOrder(kml_file.features)

\* C6: the name of the record is the first non-empty name of the feature tree
\* in depth-first order (the file name when there is none), and the
\* description taken by the walk is the first non-empty description.
C6_FirstNonEmptyNameDescription ==
  Returned =>
    LET named == {i \in 1..Len(DocFeatures) : NonEmpty(DocFeatures[i].name)}
        described == {i \in 1..Len(DocFeatures) : NonEmpty(DocFeatures[i].description)}
    IN /\ route_info.name = IF named = {} THEN file_name
                            ELSE DocFeatures[SetMin(named)].name.s
       /\ described # {} =>
            route_metadata.description = DocFeatures[SetMin(described)].description

HasKeyword(name, keywords) ==
  \E k \in keywords : OccursIgnoringCase(k, name)

\* C9: a name with a shape keyword decides the type alone, loop before
\* out-and-back before point-to-point; another name leaves it to the geometry:
\* other for fewer than 2 points, pointToPoint when the start-to-end distance
\* is not below 10% of the total length, else outAndBack when
\* |2 * midDist - total| < 30% of the total, else loop.
C9_TypeTwoTiers ==
  Returned =>
    LET name == route_info.name
        points == route_info.coordinates
        total == PathLength(points)
        start_end == Abs(points[Len(points)].longitude - points[1].longitude)
        mid == Abs(points[Len(points) \div 2 + 1].longitude - points[1].longitude)
    IN route_info.type =
         IF HasKeyword(name, {KW_loop, KW_huanxian}) THEN "loop"
         ELSE IF HasKeyword(name, {KW_out_and_back, KW_zhefan, KW_outback})
         THEN "outAndBack"
         ELSE IF HasKeyword(name, {KW_point_to_point, KW_chuanyue, KW_pointtopoint})
         THEN "pointToPoint"
         ELSE IF Len(points) < 2 THEN "other"
         ELSE IF 10 * start_end >= total THEN "pointToPoint"
         ELSE IF 10 * Abs(2 * mid - total) < 3 * total THEN "outAndBack"
         ELSE "loop"

\* a name with a loop keyword and an out-and-back keyword on an out-and-back
\* geometry is a loop
C9_Witness ==
  /\ Returned
  /\ route_info.type = "loop"
  /\ HasKeyword(route_info.name, {KW_zhefan})
  /\ determine_route_type_by_coordinates(route_info.coordinates) = "outAndBack"

\* a name without keyword on a geometry that closes: the geometry decides
C9_WitnessGeometry ==
  /\ Returned
  /\ determine_route_type(route_info.name) = "other"
  /\ route_info.type = "loop"
====
